---- MODULE Spec2Model ----
(***************************************************************************)
(* Model of the review-vectorizer batch pipeline: the pagination driver    *)
(* (VectorizeService.processAllReviews), the batch splitter                *)
(* (processReviewsInBatches), the two embedding providers (OpenAIEmbedder, *)
(* StubEmbedder), the vector assembler (createVector / NewVector) and the  *)
(* persistence sink (postgresRepository.UpsertEmbedding) over the tables   *)
(* clean_reviews and review_embeddings.                                    *)
(*                                                                         *)
(* Texts are sequences of one-character strings.  An embedding vector is   *)
(* the record [src, dim]: dim is the length of the float slice and src is  *)
(* the text the provider computed it for (the float values themselves are  *)
(* not modelled); the nil slice is the vector of length 0.                 *)
(***************************************************************************)
EXTENDS Integers, Sequences, FiniteSets, TLC

\* ------------------------------------------------------------------ bounds
MaxReviews == 3
MaxRuns == 2
MaxLimit == 2
MaxBatchSize == 2
MaxRetriesCfg == 2
MaxFaults == 1
ConcReviews == 2
MaxInputs == 3

\* ------------------------------------------------------- program constants
ChunkSize == 10
MinTextLen == 3
OpenAIDim == 1536
DefaultDim == 1536

Runs == 1..MaxRuns

Min(a, b) == IF a < b THEN a ELSE b

Range(s) == {s[k] : k \in 1..Len(s)}

\* -------------------------------------------------------------------- texts
\* a text is a sequence of characters; a character is written as itself when
\* it is ASCII and as its code point otherwise
Space == " "
TGood == <<"a", "b", "c">>
TShort == <<"o", "k">>
TReply == <<"t", "h", "x">>
TSpaced == <<" ", "a", " ", " ", "b", "c", " ">>
TBlank == <<" ", " ">>
TEmpty == <<>>
TWide == <<"U+00E9", "U+00E9">>
SqlNull == <<"NULL">>

NilVec == [src |-> <<>>, dim |-> 0]

\* strings.Fields: the maximal runs of non-space characters, in order
RECURSIVE FieldsAcc(_, _, _)
FieldsAcc(text, cur, acc) ==
    IF text = <<>>
    THEN IF cur = <<>> THEN acc ELSE Append(acc, cur)
    ELSE IF Head(text) = Space
         THEN FieldsAcc(Tail(text), <<>>, IF cur = <<>> THEN acc ELSE Append(acc, cur))
         ELSE FieldsAcc(Tail(text), Append(cur, Head(text)), acc)

Fields(text) == FieldsAcc(text, <<>>, <<>>)

\* strings.Join(fields, " ")
RECURSIVE Join(_)
Join(fields) ==
    IF fields = <<>> THEN <<>>
    ELSE IF Len(fields) = 1 THEN Head(fields)
    ELSE Head(fields) \o <<Space>> \o Join(Tail(fields))

\* the bytes of a character in UTF-8 (the code points used are below U+0800)
Utf8Len(char) == IF Len(char) = 1 THEN 1 ELSE 2

\* len(text): the length of a Go string is its number of bytes
RECURSIVE ByteLen(_)
ByteLen(text) ==
    IF text = <<>> THEN 0 ELSE Utf8Len(Head(text)) + ByteLen(Tail(text))

\* preprocessText: trim, collapse whitespace, reject texts shorter than 3
preprocessText(text) ==
    LET joined == Join(Fields(text))
    IN IF ByteLen(joined) < MinTextLen THEN <<>> ELSE joined

\* a sequence without the elements that fail the test
RECURSIVE SelectNonEmpty(_)
SelectNonEmpty(texts) ==
    IF texts = <<>> THEN <<>>
    ELSE IF Head(texts) # <<>>
         THEN <<Head(texts)>> \o SelectNonEmpty(Tail(texts))
         ELSE SelectNonEmpty(Tail(texts))

\* the loop of OpenAIEmbedder.EmbedBatch that keeps the inputs which survive
\* preprocessing, in their preprocessed form
ProcessedInputs(inputs) ==
    SelectNonEmpty([k \in 1..Len(inputs) |-> preprocessText(inputs[k])])

\* --------------------------------------------------------- remote provider
\* the embeddings endpoint answers a request with one vector per input text,
\* in input order
ApiResponse(texts) ==
    [k \in 1..Len(texts) |-> [src |-> texts[k], dim |-> OpenAIDim]]

\* variant: the retry loop with the test attempt < MaxRetries, one attempt
\* fewer
OpenAIClient_processBatch_OneFewer(texts, nfail, MaxRetries) ==
    IF nfail < MaxRetries
    THEN [err |-> FALSE, vectors |-> ApiResponse(texts), attempts |-> nfail + 1]
    ELSE [err |-> TRUE, vectors |-> <<>>, attempts |-> MaxRetries]

\* variant: the retry loop without the break on success
OpenAIClient_processBatch_NoBreak(texts, nfail, MaxRetries) ==
    IF nfail <= MaxRetries
    THEN [err |-> FALSE, vectors |-> ApiResponse(texts), attempts |-> MaxRetries + 1]
    ELSE [err |-> TRUE, vectors |-> <<>>, attempts |-> MaxRetries + 1]

\* the for loop of OpenAIClient.processBatch from the given attempt on: the
\* request of attempt a (0-based) fails exactly when a < nfail
RECURSIVE RetryLoop(_, _, _, _)
RetryLoop(texts, attempt, nfail, MaxRetries) ==
    IF attempt > MaxRetries
    THEN [err |-> TRUE, vectors |-> <<>>, attempts |-> attempt]
    ELSE IF attempt >= nfail
         THEN [err |-> FALSE, vectors |-> ApiResponse(texts), attempts |-> attempt + 1]
         ELSE RetryLoop(texts, attempt + 1, nfail, MaxRetries)

\* OpenAIClient.processBatch: the retry loop around makeRequest.  nfail is the
\* number of attempts that fail before the first one that would succeed.
OpenAIClient_processBatch(texts, nfail, MaxRetries) ==
    RetryLoop(texts, 0, nfail, MaxRetries)

\* OpenAIClient.CreateEmbeddings: chunks of 10 texts, all-or-nothing.
\* fails[c] is the number of failing attempts of the c-th chunk request;
\* calls lists, for every chunk request actually issued, its texts, the
\* failing attempts the endpoint had in store for it and the attempts made.
RECURSIVE CreateEmbeddingsFrom(_, _, _, _, _, _)
CreateEmbeddingsFrom(texts, i, fails, MaxRetries, allVectors, calls) ==
    IF i >= Len(texts)
    THEN [err |-> FALSE, vectors |-> allVectors, calls |-> calls]
    ELSE LET end == Min(i + ChunkSize, Len(texts))
             batch == SubSeq(texts, i + 1, end)
             res == OpenAIClient_processBatch(batch, fails[Len(calls) + 1], MaxRetries)
             made == Append(calls, [texts |-> batch,
                                    failing |-> fails[Len(calls) + 1],
                                    attempts |-> res.attempts,
                                    ok |-> ~res.err])
         IN IF res.err
            THEN [err |-> TRUE, vectors |-> <<>>, calls |-> made]
            ELSE CreateEmbeddingsFrom(texts, end, fails, MaxRetries,
                                      allVectors \o res.vectors, made)

\* variant: a chunk whose retries are exhausted ends the call with the
\* vectors of the chunks before it
CreateEmbeddings_KeepEarlier(texts, fails, MaxRetries) ==
    IF Len(texts) = 0
    THEN [err |-> FALSE, vectors |-> <<>>, calls |-> <<>>]
    ELSE LET res == CreateEmbeddingsFrom(texts, 0, fails, MaxRetries, <<>>, <<>>)
             done == (Len(res.calls) - 1) * ChunkSize
         IN IF res.err /\ done > 0
            THEN [err |-> FALSE, vectors |-> ApiResponse(SubSeq(texts, 1, done)),
                  calls |-> res.calls]
            ELSE res

CreateEmbeddings(texts, fails, MaxRetries) ==
    IF Len(texts) = 0
    THEN [err |-> FALSE, vectors |-> <<>>, calls |-> <<>>]
    ELSE CreateEmbeddingsFrom(texts, 0, fails, MaxRetries, <<>>, <<>>)

\* number of chunk requests a call over n texts can issue
NumChunks(n) == (n + ChunkSize - 1) \div ChunkSize

\* variant: EmbedBatch without the test for an empty list of valid inputs
OpenAIEmbedder_EmbedBatch_NoCheck(inputs, fails, MaxRetries) ==
    IF Len(inputs) = 0
    THEN [err |-> "nil", vectors |-> <<>>, calls |-> <<>>]
    ELSE LET res == CreateEmbeddings(ProcessedInputs(inputs), fails, MaxRetries)
         IN IF res.err
            THEN [err |-> "failed to generate embeddings",
                  vectors |-> <<>>, calls |-> res.calls]
            ELSE [err |-> "nil", vectors |-> res.vectors, calls |-> res.calls]

\* OpenAIEmbedder.EmbedBatch
OpenAIEmbedder_EmbedBatch(inputs, fails, MaxRetries) ==
    IF Len(inputs) = 0
    THEN [err |-> "nil", vectors |-> <<>>, calls |-> <<>>]
    ELSE LET processedInputs == ProcessedInputs(inputs)
         IN IF Len(processedInputs) = 0
            THEN [err |-> "no valid inputs", vectors |-> <<>>, calls |-> <<>>]
            ELSE LET res == CreateEmbeddings(processedInputs, fails, MaxRetries)
                 IN IF res.err
                    THEN [err |-> "failed to generate embeddings",
                          vectors |-> <<>>, calls |-> res.calls]
                    ELSE [err |-> "nil", vectors |-> res.vectors, calls |-> res.calls]

\* ------------------------------------------------------- fallback provider
\* variant: a fallback provider that embeds only the inputs that survive
\* preprocessing
StubEmbedder_EmbedBatch_Preprocessed(inputs, dim) ==
    LET valid == ProcessedInputs(inputs)
    IN [err |-> "nil",
        vectors |-> [k \in 1..Len(valid) |-> [src |-> valid[k], dim |-> dim]],
        calls |-> <<>>]

\* StubEmbedder.EmbedBatch: one vector of the configured dimension per input
StubEmbedder_EmbedBatch(inputs, dim) ==
    IF Len(inputs) = 0
    THEN [err |-> "nil", vectors |-> <<>>, calls |-> <<>>]
    ELSE [err |-> "nil",
          vectors |-> [k \in 1..Len(inputs) |-> [src |-> inputs[k], dim |-> dim]],
          calls |-> <<>>]

\* variant: a remote call that failed is answered by the stub provider
EmbedBatch_Fallback(provider, config, inputs, fails) ==
    LET remote == OpenAIEmbedder_EmbedBatch(inputs, fails, config.MaxRetries)
        stub == StubEmbedder_EmbedBatch(inputs, config.MaxVectorLength)
    IN IF provider = "openai"
       THEN IF remote.err = "nil" THEN remote
            ELSE [err |-> "nil", vectors |-> stub.vectors, calls |-> remote.calls]
       ELSE stub

\* Embedder.EmbedBatch, dispatched on the provider chosen at construction
EmbedBatch(provider, config, inputs, fails) ==
    IF provider = "openai"
    THEN OpenAIEmbedder_EmbedBatch(inputs, fails, config.MaxRetries)
    ELSE StubEmbedder_EmbedBatch(inputs, config.MaxVectorLength)

\* NewVectorizeService: the provider is the remote one exactly when an API key
\* is configured (NewOpenAIClient fails only on an empty key)
NewOpenAIClientFails(config) == config.APIKey = ""

\* variant: the remote provider whatever the configuration holds
NewVectorizeService_KeyIgnored(config) == "openai"

NewVectorizeService(config) ==
    IF config.APIKey # ""
    THEN IF NewOpenAIClientFails(config) THEN "stub" ELSE "openai"
    ELSE "stub"

\* -------------------------------------------------------------------- store
\* reviewed_at and the date filters, as the day of the year 2024
DayOf(date) ==
    IF date = "2024-01-01" THEN 1
    ELSE IF date = "2024-06-30" THEN 182
    ELSE 366

InList(x, list) == \E k \in 1..Len(list) : list[k] = x

\* one row of clean_reviews; the id is the row's position in reviewed_at
\* descending order
ReviewKinds == {"plain", "replied", "curt", "short", "junk"}

CleanReview(id, kind) ==
    [ID |-> id,
     AppID |-> "app",
     Country |-> IF id % 2 = 0 THEN "US" ELSE "DE",
     Rating |-> id,
     Language |-> "en",
     ReviewedAt |-> DayOf("2024-06-30") - id,
     ContentClean |-> IF kind = "short" THEN TShort ELSE TGood,
     ResponseContentClean |-> IF kind = "replied" THEN TReply
                              ELSE IF kind = "curt" THEN TShort ELSE SqlNull,
     IsContentful |-> kind # "junk"]

HasRow(re, id) == \E row \in re : row.review_id = id

\* variant: the WHERE clause without the test on review_embeddings
WhereClause_IgnoreStored(re, filters, review) ==
    /\ review.IsContentful = TRUE
    /\ review.ContentClean # SqlNull
    /\ filters.AppID # "" => review.AppID = filters.AppID
    /\ Len(filters.Countries) > 0 => InList(review.Country, filters.Countries)
    /\ Len(filters.Languages) > 0 => InList(review.Language, filters.Languages)
    /\ filters.DateFrom # "" => review.ReviewedAt >= DayOf(filters.DateFrom)
    /\ filters.DateTo # "" => review.ReviewedAt <= DayOf(filters.DateTo)

\* the WHERE clause of GetCleanReviewsForVectorization
WhereClause(re, filters, review) ==
    /\ review.IsContentful = TRUE
    /\ review.ContentClean # SqlNull
    /\ IF filters.ForceRecompute
       THEN ~HasRow(re, review.ID) \/ TRUE = TRUE
       ELSE ~HasRow(re, review.ID)
    /\ filters.AppID # "" => review.AppID = filters.AppID
    /\ Len(filters.Countries) > 0 => InList(review.Country, filters.Countries)
    /\ Len(filters.Languages) > 0 => InList(review.Language, filters.Languages)
    /\ filters.DateFrom # "" => review.ReviewedAt >= DayOf(filters.DateFrom)
    /\ filters.DateTo # "" => review.ReviewedAt <= DayOf(filters.DateTo)

\* the statement and the argument list GetCleanReviewsForVectorization hands
\* to db.Query: refs are the placeholders of the statement in the order they
\* are written, each with the argument it is written for; args are the
\* arguments in the order they are appended
Placeholder(n, of) == [n |-> n, of |-> of]
Argument(of) == [of |-> of]

AddArgument(q, of) ==
    [refs |-> Append(q.refs, Placeholder(q.argIndex, of)),
     args |-> Append(q.args, Argument(of)),
     argIndex |-> q.argIndex + 1]

\* a list filter: every element is appended as an argument of its own, then
\* the statement refers to the next index, where the list itself is appended
AddListArgument(q, of, list) ==
    [refs |-> Append(q.refs, Placeholder(q.argIndex + Len(list), of)),
     args |-> q.args \o [k \in 1..Len(list) |-> Argument("element")]
                    \o <<Argument(of)>>,
     argIndex |-> q.argIndex + Len(list) + 1]

BuildQuery(filters) ==
    LET q0 == [refs |-> <<>>, args |-> <<>>, argIndex |-> 1]
        q1 == IF filters.ForceRecompute
              THEN [refs |-> <<Placeholder(1, "force_recompute")>>,
                    args |-> <<Argument("force_recompute")>>,
                    argIndex |-> q0.argIndex + 1]
              ELSE q0
        q2 == IF filters.AppID # "" THEN AddArgument(q1, "app_id") ELSE q1
        q3 == IF Len(filters.Countries) > 0
              THEN AddListArgument(q2, "countries", filters.Countries) ELSE q2
        q4 == IF Len(filters.Languages) > 0
              THEN AddListArgument(q3, "languages", filters.Languages) ELSE q3
        q5 == IF filters.DateFrom # "" THEN AddArgument(q4, "date_from") ELSE q4
        q6 == IF filters.DateTo # "" THEN AddArgument(q5, "date_to") ELSE q5
    IN [refs |-> q6.refs \o <<Placeholder(q6.argIndex, "limit"),
                              Placeholder(q6.argIndex + 1, "offset")>>,
        args |-> q6.args \o <<Argument("limit"), Argument("offset")>>]

\* every argument handed to db.Query is referred to by the statement
AllReferenced(q) ==
    \A n \in 1..Len(q.args) : \E k \in 1..Len(q.refs) : q.refs[k].n = n

\* variant: the query without its OFFSET
GetCleanReviewsForVectorization_NoOffset(cr, re, filters, limit, offset) ==
    LET Test(review) ==
            /\ review.IsContentful = TRUE
            /\ review.ContentClean # SqlNull
            /\ (filters.ForceRecompute \/ ~HasRow(re, review.ID))
        matching == SelectSeq(cr, Test)
    IN SubSeq(matching, 1, Min(limit, Len(matching)))

\* postgresRepository.GetCleanReviewsForVectorization: the rows of
\* clean_reviews that pass the WHERE clause, most recent first, LIMIT/OFFSET
GetCleanReviewsForVectorization(cr, re, filters, limit, offset) ==
    LET Test(review) == WhereClause(re, filters, review)
        matching == SelectSeq(cr, Test)
    IN SubSeq(matching, offset + 1, Min(offset + limit, Len(matching)))

\* variant: the INSERT without a uniqueness constraint on review_id
UpsertEmbedding_NoUnique(re, vector, execOk) ==
    IF ~execOk
    THEN [table |-> re, err |-> TRUE]
    ELSE [table |-> re \cup
            {[embedding_id |-> vector.EmbeddingID, review_id |-> vector.ReviewID,
              app_id |-> vector.AppID, language |-> vector.Language,
              rating |-> vector.Rating, country |-> vector.Country,
              model |-> vector.Model, dim |-> vector.Dim,
              content_vec |-> vector.ContentVec,
              response_vec |-> IF vector.ResponseVec.dim > 0
                               THEN vector.ResponseVec ELSE NilVec]},
          err |-> FALSE]

\* variant: ON CONFLICT (review_id) DO UPDATE, the last write wins
UpsertEmbedding_Overwrite(re, vector, execOk) ==
    IF ~execOk
    THEN [table |-> re, err |-> TRUE]
    ELSE [table |-> {row \in re : row.review_id # vector.ReviewID} \cup
            {[embedding_id |-> vector.EmbeddingID, review_id |-> vector.ReviewID,
              app_id |-> vector.AppID, language |-> vector.Language,
              rating |-> vector.Rating, country |-> vector.Country,
              model |-> vector.Model, dim |-> vector.Dim,
              content_vec |-> vector.ContentVec,
              response_vec |-> IF vector.ResponseVec.dim > 0
                               THEN vector.ResponseVec ELSE NilVec]},
          err |-> FALSE]

\* postgresRepository.UpsertEmbedding: INSERT ... ON CONFLICT (review_id) DO
\* NOTHING.  execOk is FALSE when Exec returns an error (connectivity,
\* another constraint, a vector the column rejects).
UpsertEmbedding(re, vector, execOk) ==
    IF ~execOk
    THEN [table |-> re, err |-> TRUE]
    ELSE IF HasRow(re, vector.ReviewID)
         THEN [table |-> re, err |-> FALSE]
         ELSE [table |-> re \cup
                 {[embedding_id |-> vector.EmbeddingID,
                   review_id |-> vector.ReviewID,
                   app_id |-> vector.AppID,
                   language |-> vector.Language,
                   rating |-> vector.Rating,
                   country |-> vector.Country,
                   model |-> vector.Model,
                   dim |-> vector.Dim,
                   content_vec |-> vector.ContentVec,
                   response_vec |-> IF vector.ResponseVec.dim > 0
                                    THEN vector.ResponseVec ELSE NilVec]},
               err |-> FALSE]

\* ------------------------------------------------------------------ service
EmptyResult == [Processed |-> 0, Skipped |-> 0, Failed |-> 0, ReviewIDs |-> <<>>]

\* variant: the failures of the later result are not added
AddResult_DropFailed(a, b) ==
    [Processed |-> a.Processed + b.Processed,
     Skipped |-> a.Skipped + b.Skipped,
     Failed |-> a.Failed,
     ReviewIDs |-> a.ReviewIDs \o b.ReviewIDs]

\* variant: the ids of the later result put first
AddResult_Prepend(a, b) ==
    [Processed |-> a.Processed + b.Processed,
     Skipped |-> a.Skipped + b.Skipped,
     Failed |-> a.Failed + b.Failed,
     ReviewIDs |-> b.ReviewIDs \o a.ReviewIDs]

\* the additive accumulation of a VectorizeResult
AddResult(a, b) ==
    [Processed |-> a.Processed + b.Processed,
     Skipped |-> a.Skipped + b.Skipped,
     Failed |-> a.Failed + b.Failed,
     ReviewIDs |-> a.ReviewIDs \o b.ReviewIDs]

\* variant: a failed sub-batch counted as one failure
FailBatch_One(result, batch) == [result EXCEPT !.Failed = @ + 1]

\* processReviewsInBatches on an error of processBatch: the whole sub-batch
\* is counted as failed
FailBatch(result, batch) == [result EXCEPT !.Failed = @ + Len(batch)]

\* variant: a failed upsert is not counted
CountUpsert_Silent(result, review, err) ==
    IF err THEN result
    ELSE [result EXCEPT !.Processed = @ + 1, !.ReviewIDs = Append(@, review.ID)]

\* storeVectors: the result after the upsert of one review returned err
CountUpsert(result, review, err) ==
    IF err
    THEN [result EXCEPT !.Failed = @ + 1]
    ELSE [result EXCEPT !.Processed = @ + 1, !.ReviewIDs = Append(@, review.ID)]

\* variant: the explicit limit of the request is not used
determineBatchSize_ConfigOnly(config, limit) == config.BatchSize

\* VectorizeService.determineBatchSize
determineBatchSize(config, limit) ==
    IF limit > 0 THEN limit ELSE config.BatchSize

\* a value of a decoded JSON object (the dynamic types of a Go any): a number
\* is a float64, held here as a count of halves
Absent == [type |-> "absent", v |-> 0]
JBool(b) == [type |-> "bool", v |-> b]
JFloat(halves) == [type |-> "float64", v |-> halves]
JString(s) == [type |-> "string", v |-> s]
JList(l) == [type |-> "[]any", v |-> l]

\* int(f) of a float64: the fraction is dropped, towards zero
IntOfFloat(halves) == IF halves >= 0 THEN halves \div 2 ELSE 0 - ((0 - halves) \div 2)

\* p[key].(T): the value, when the key is present with dynamic type T
Is(value, type) == value.type = type

\* extractRequestFromPayload for a []any of countries or languages: an
\* element that is not a string leaves the empty string
StringsOf(list) == [k \in 1..Len(list) |-> IF Is(list[k], "string") THEN list[k].v ELSE ""]

\* variant: a typed event is decoded into the request it carries
extractRequestFromPayload_Decode(payload) ==
    IF payload.kind = "events.VectorizeRequest" THEN payload.request
    ELSE [ForceRecompute |-> FALSE, Limit |-> 0, AppID |-> "", Countries |-> <<>>,
          Languages |-> <<>>, DateFrom |-> "", DateTo |-> ""]

\* VectorizeService.extractRequestFromPayload: the type switch on the payload
extractRequestFromPayload(payload) ==
    IF payload.kind = "map[string]any"
    THEN [ForceRecompute |-> IF Is(payload.force_recompute, "bool")
                             THEN payload.force_recompute.v ELSE FALSE,
          Limit |-> IF Is(payload.batch_size, "float64")
                    THEN IntOfFloat(payload.batch_size.v)
                    ELSE IF Is(payload.limit, "float64")
                         THEN IntOfFloat(payload.limit.v) ELSE 0,
          AppID |-> IF Is(payload.app_id, "string") THEN payload.app_id.v ELSE "",
          Countries |-> IF Is(payload.countries, "[]any")
                        THEN StringsOf(payload.countries.v) ELSE <<>>,
          Languages |-> IF Is(payload.languages, "[]any")
                        THEN StringsOf(payload.languages.v) ELSE <<>>,
          DateFrom |-> IF Is(payload.date_from, "string") THEN payload.date_from.v ELSE "",
          DateTo |-> IF Is(payload.date_to, "string") THEN payload.date_to.v ELSE ""]
    ELSE IF payload.kind = "string"
    THEN [ForceRecompute |-> payload.v \in {"force", "recompute"}, Limit |-> 0,
          AppID |-> "", Countries |-> <<>>, Languages |-> <<>>,
          DateFrom |-> "", DateTo |-> ""]
    ELSE [ForceRecompute |-> FALSE, Limit |-> 0, AppID |-> "", Countries |-> <<>>,
          Languages |-> <<>>, DateFrom |-> "", DateTo |-> ""]

\* VectorizeService.prepareTexts
prepareTexts(batch) ==
    [contentTexts |-> [k \in 1..Len(batch) |-> batch[k].ContentClean],
     responseTexts |-> [k \in 1..Len(batch) |->
        IF batch[k].ResponseContentClean # SqlNull /\ batch[k].ResponseContentClean # <<>>
        THEN batch[k].ResponseContentClean ELSE <<>>]]

\* VectorizeService.filterNonEmptyResponses
filterNonEmptyResponses(responseTexts) == SelectNonEmpty(responseTexts)

\* storage.NewVector
NewVector(embeddingID, reviewID, appID, contentVec) ==
    [EmbeddingID |-> embeddingID,
     ReviewID |-> reviewID,
     AppID |-> appID,
     Language |-> "",
     Rating |-> 0,
     Country |-> "",
     Model |-> "text-embedding-3-small",
     Dim |-> DefaultDim,
     ContentVec |-> contentVec,
     ResponseVec |-> NilVec]

\* VectorizeService.createVector; index is the 0-based position in the
\* sub-batch
createVector(config, embeddingID, review, contentVec, responseVectors, index) ==
    LET vector == NewVector(embeddingID, review.ID, review.AppID, contentVec)
    IN [vector EXCEPT
          !.Language = review.Language,
          !.Rating = review.Rating,
          !.Country = review.Country,
          !.Model = config.Model,
          !.Dim = config.MaxVectorLength,
          !.ResponseVec = IF index < Len(responseVectors)
                          THEN responseVectors[index + 1] ELSE NilVec]

\* an EmbedBatch call that was not made
NotCalled == [err |-> "none", calls |-> <<>>]

\* variant: a failure of the response call fails the sub-batch
generateEmbeddings_ResponseFatal(provider, config, contentTexts, responseTexts, failsC, failsR) ==
    LET content == EmbedBatch(provider, config, contentTexts, failsC)
        nonEmptyResponses == filterNonEmptyResponses(responseTexts)
        response == EmbedBatch(provider, config, nonEmptyResponses, failsR)
        called == (content.err = "nil" /\ Len(nonEmptyResponses) > 0)
        failed == content.err # "nil" \/ (called /\ response.err # "nil")
    IN [err |-> failed,
        contentVectors |-> IF failed THEN <<>> ELSE content.vectors,
        responseVectors |-> IF failed \/ ~called THEN <<>> ELSE response.vectors,
        calls |-> IF called THEN content.calls \o response.calls ELSE content.calls,
        content |-> [err |-> content.err, calls |-> content.calls],
        response |-> IF called THEN [err |-> response.err, calls |-> response.calls]
                     ELSE NotCalled]

\* VectorizeService.generateEmbeddings: the content vectors are mandatory, a
\* failure of the response call only drops the response vectors.  content and
\* response are the error and the chunk requests of the two EmbedBatch calls.
generateEmbeddings(provider, config, contentTexts, responseTexts, failsC, failsR) ==
    LET content == EmbedBatch(provider, config, contentTexts, failsC)
        nonEmptyResponses == filterNonEmptyResponses(responseTexts)
        response == EmbedBatch(provider, config, nonEmptyResponses, failsR)
    IN IF content.err # "nil"
       THEN [err |-> TRUE, contentVectors |-> <<>>, responseVectors |-> <<>>,
             calls |-> content.calls,
             content |-> [err |-> content.err, calls |-> content.calls],
             response |-> NotCalled]
       ELSE IF Len(nonEmptyResponses) > 0
            THEN [err |-> FALSE,
                  contentVectors |-> content.vectors,
                  responseVectors |-> IF response.err # "nil" THEN <<>>
                                      ELSE response.vectors,
                  calls |-> content.calls \o response.calls,
                  content |-> [err |-> content.err, calls |-> content.calls],
                  response |-> [err |-> response.err, calls |-> response.calls]]
            ELSE [err |-> FALSE, contentVectors |-> content.vectors,
                  responseVectors |-> <<>>, calls |-> content.calls,
                  content |-> [err |-> content.err, calls |-> content.calls],
                  response |-> NotCalled]

\* the attempts of a list of chunk requests that failed
RECURSIVE FailedAttempts(_, _)
FailedAttempts(calls, MaxRetries) ==
    IF calls = <<>> THEN 0
    ELSE (IF Head(calls).ok THEN Head(calls).attempts - 1 ELSE Head(calls).attempts)
         + FailedAttempts(Tail(calls), MaxRetries)

\* ------------------------------------------------------------------- state
VARIABLES
    cfg,                \* the loaded configuration (config.Config)
    embedder,           \* the provider chosen by NewVectorizeService
    clean_reviews,      \* table clean_reviews, most recent first
    review_embeddings,  \* table review_embeddings, a set of rows
    run,                \* per run: the locals of RunOnce and of its callees
    faults,             \* failures and cancellations the environment may still inject
    embIn,              \* provider harness: the inputs of an EmbedBatch call
    embOut              \* provider harness: what the call returned

vars == <<cfg, embedder, clean_reviews, review_embeddings, run, faults, embIn, embOut>>

\* the zero value of VectorizeRequest
NoRequest ==
    [ForceRecompute |-> FALSE, Limit |-> 0, AppID |-> "", Countries |-> <<>>,
     Languages |-> <<>>, DateFrom |-> "", DateTo |-> ""]
\* no trigger message: RunOnce is called with a request
NoPayload == [kind |-> "none"]
\* a context that was not cancelled
NoCancel == [pc |-> "none", page |-> 0]
NoReturn == [result |-> EmptyResult, err |-> "none"]

\* the locals of a run before RunOnce is entered
InitialRun(pc, request) ==
    [pc |-> pc,
     entry |-> "RunOnce",
     payload |-> NoPayload,
     req |-> request,
     ctxDone |-> FALSE,
     batchSize |-> 0,
     offset |-> 0,
     result |-> EmptyResult,
     reviews |-> <<>>,
     i |-> 0,
     batchResult |-> EmptyResult,
     j |-> 0,
     storeResult |-> EmptyResult,
     contentVectors |-> <<>>,
     responseVectors |-> <<>>,
     embedded |-> [content |-> NotCalled, response |-> NotCalled],
     batches |-> <<>>,
     inner |-> NoReturn,
     ret |-> NoReturn,
     vectorsMade |-> 0,
     fetches |-> <<>>,
     upserts |-> <<>>,
     spin |-> 0,
     rounds |-> 0,
     publishes |-> <<>>,
     handleRet |-> "none",
     cancelledAt |-> NoCancel,
     rowsAtStart |-> {},
     eligibleAtStart |-> {}]

\* vectorizer.max_vector_length: the dimension of the scenarios and the
\* dimension of the vector columns
Dims == {8, DefaultDim}

\* openai.max_retries: no retry, or the largest number of retries considered
Retries == {0, MaxRetriesCfg}

Configs ==
    [APIKey : {"", "sk"},
     BatchSize : 1..MaxBatchSize,
     MaxVectorLength : Dims,
     MaxRetries : Retries,
     Model : {"text-embedding-3-small"}]

\* the contents of clean_reviews: up to n rows, all of them "plain" or all but
\* one of them
PlainTable(m) == [k \in 1..m |-> "plain"]

ReviewTables(n) ==
    {PlainTable(m) : m \in 0..n} \cup
    UNION {{[PlainTable(m) EXCEPT ![p] = kind] :
                p \in 1..m, kind \in ReviewKinds \ {"plain"}} : m \in 1..n}

\* the requests RunOnce is called with: force_recompute and limit vary, the
\* other filters are left empty
Requests ==
    {[NoRequest EXCEPT !.ForceRecompute = force, !.Limit = limit] :
        force \in BOOLEAN, limit \in 0..MaxLimit}

\* processAllReviews: the filters of every fetch of the run
Filters(req) ==
    [ForceRecompute |-> req.ForceRecompute, AppID |-> req.AppID,
     Countries |-> req.Countries, Languages |-> req.Languages,
     DateFrom |-> req.DateFrom, DateTo |-> req.DateTo]

\* the openai settings are read by the OpenAI client only: without an API key
\* one value of max_retries, the largest of retries, stands for all
InitData(maxReviews, dims, retries) ==
    /\ cfg \in {c \in Configs :
                  /\ c.MaxVectorLength \in dims
                  /\ c.MaxRetries \in retries
                  /\ c.APIKey = "" => \A x \in retries : c.MaxRetries >= x}
    /\ embedder = NewVectorizeService(cfg)
    /\ \E kinds \in ReviewTables(maxReviews) :
          clean_reviews = [id \in 1..Len(kinds) |-> CleanReview(id, kinds[id])]
    /\ review_embeddings = {}
    /\ faults = MaxFaults
    /\ embIn = <<>>
    /\ embOut = [err |-> "none", vectors |-> <<>>, calls |-> <<>>]

\* one service instance handles one trigger message, whose request is req
Init ==
    /\ InitData(MaxReviews, Dims, Retries)
    /\ \E request \in Requests :
          run = [r \in Runs |-> IF r = 1 THEN InitialRun("idle", request)
                                         ELSE InitialRun("off", NoRequest)]

\* several service instances of one deployment (an API key is configured,
\* requests are not retried), each handling one trigger message that carries
\* no explicit limit
InitConcurrent ==
    /\ InitData(ConcReviews, {DefaultDim}, {0})
    /\ cfg.APIKey # ""
    /\ run \in [Runs -> {InitialRun("idle", request) :
                            request \in {q \in Requests : q.Limit = 0}}]

\* ----------------------------------------------------------------- actions
Set(r, new) == run' = [run EXCEPT ![r] = new]

\* RunOnce returning (result, err); inner is what processAllReviews returned
Return(r, cur, result, err) ==
    [cur EXCEPT !.pc = "returned",
                !.inner = [result |-> result, err |-> err],
                !.ret = IF err # "nil"
                        THEN [result |-> EmptyResult, err |-> err]
                        ELSE [result |-> result, err |-> "nil"]]

\* variant: sub-batches that start one record early
CurrentBatch_Overlap(cur) ==
    SubSeq(cur.reviews, IF cur.i = 0 THEN 1 ELSE cur.i,
           Min(cur.i + cfg.BatchSize, Len(cur.reviews)))

\* the sub-batch processReviewsInBatches is at
CurrentBatch(cur) ==
    SubSeq(cur.reviews, cur.i + 1, Min(cur.i + cfg.BatchSize, Len(cur.reviews)))

\* RunOnce up to the first iteration of processAllReviews
RunOnce(r) ==
    /\ run[r].pc = "idle"
    /\ LET request == run[r].req
       IN Set(r, [run[r] EXCEPT
                    !.pc = "fetch",
                    !.rounds = @ + 1,
                    !.batchSize = determineBatchSize(cfg, request.Limit),
                    !.offset = 0,
                    !.result = EmptyResult,
                    !.rowsAtStart = {row.review_id : row \in review_embeddings},
                    !.eligibleAtStart =
                        {rv.ID : rv \in Range(GetCleanReviewsForVectorization(
                            clean_reviews, review_embeddings, Filters(request),
                            Len(clean_reviews), 0))}])
    /\ UNCHANGED <<cfg, embedder, clean_reviews, review_embeddings, faults, embIn, embOut>>

\* processAllReviews: a page fetch that succeeds
Fetch(r) ==
    /\ run[r].pc = "fetch"
    /\ ~run[r].ctxDone
    /\ LET cur == run[r]
           reviews == GetCleanReviewsForVectorization(
                         clean_reviews, review_embeddings, Filters(cur.req),
                         cur.batchSize, cur.offset)
           fetched == [cur EXCEPT !.fetches = Append(@,
                         [limit |-> cur.batchSize, offset |-> cur.offset,
                          filters |-> Filters(cur.req),
                          ids |-> [k \in 1..Len(reviews) |-> reviews[k].ID]])]
       IN IF Len(reviews) = 0
          THEN Set(r, Return(r, fetched, cur.result, "nil"))
          ELSE Set(r, [fetched EXCEPT !.pc = "batch",
                                      !.reviews = reviews,
                                      !.i = 0,
                                      !.batches = <<>>,
                                      !.batchResult = EmptyResult])
    /\ UNCHANGED <<cfg, embedder, clean_reviews, review_embeddings, faults, embIn, embOut>>

\* processAllReviews: a page fetch that fails; a query on a cancelled context
\* always does, and a statement handed arguments it does not refer to can be
\* refused by the database
FetchError(r) ==
    /\ run[r].pc = "fetch"
    /\ LET free == run[r].ctxDone \/ ~AllReferenced(BuildQuery(Filters(run[r].req)))
       IN /\ free \/ faults > 0
          /\ faults' = IF free THEN faults ELSE faults - 1
    /\ LET cur == run[r]
           fetched == [cur EXCEPT !.fetches = Append(@,
                         [limit |-> cur.batchSize, offset |-> cur.offset,
                          filters |-> Filters(cur.req), ids |-> <<>>])]
       IN Set(r, Return(r, fetched, cur.result, "fetch"))
    /\ UNCHANGED <<cfg, embedder, clean_reviews, review_embeddings, embIn, embOut>>

\* the sub-batches of the page handed to processBatch so far; the history is
\* kept up to one entry more than the page has records
Handed(cur, batch) ==
    IF Len(cur.batches) <= Len(cur.reviews) THEN Append(cur.batches, batch)
    ELSE cur.batches

\* the parity of the iterations of processReviewsInBatches past that history
Spin(cur) == IF Len(cur.batches) <= Len(cur.reviews) THEN cur.spin ELSE 1 - cur.spin

\* processReviewsInBatches: one iteration, processBatch up to storeVectors.
\* Every request of a cancelled context fails, at no cost to the environment.
ProcessBatch(r) ==
    /\ run[r].pc = "batch"
    /\ run[r].i < Len(run[r].reviews)
    /\ LET cur == run[r]
           batch == CurrentBatch(cur)
           texts == prepareTexts(batch)
           FailChoices(n) ==
               IF cur.ctxDone THEN {[k \in 1..NumChunks(n) |-> cfg.MaxRetries + 1]}
               ELSE [1..NumChunks(n) -> 0..(cfg.MaxRetries + 1)]
       IN IF Len(batch) = 0
          THEN /\ Set(r, [cur EXCEPT !.batches = Handed(cur, batch),
                                      !.spin = Spin(cur),
                                      !.i = cur.i + cfg.BatchSize])
               /\ UNCHANGED faults
          ELSE \E failsC \in FailChoices(Len(batch)), failsR \in FailChoices(Len(batch)) :
                 LET ge == generateEmbeddings(embedder, cfg, texts.contentTexts,
                                              texts.responseTexts, failsC, failsR)
                     cost == IF FailedAttempts(ge.calls, cfg.MaxRetries) > 0 /\ ~cur.ctxDone
                             THEN 1 ELSE 0
                 IN /\ faults >= cost
                    /\ faults' = faults - cost
                    /\ IF ge.err
                       THEN Set(r, [cur EXCEPT
                                      !.batches = Handed(cur, batch),
                                      !.embedded = [content |-> ge.content,
                                                    response |-> ge.response],
                                      !.batchResult = FailBatch(@, batch),
                                      !.i = cur.i + cfg.BatchSize])
                       ELSE Set(r, [cur EXCEPT
                                      !.pc = "store",
                                      !.batches = Handed(cur, batch),
                                      !.embedded = [content |-> ge.content,
                                                    response |-> ge.response],
                                      !.j = 0,
                                      !.storeResult = EmptyResult,
                                      !.contentVectors = ge.contentVectors,
                                      !.responseVectors = ge.responseVectors])
    /\ UNCHANGED <<cfg, embedder, clean_reviews, review_embeddings, embIn, embOut>>

\* storeVectors: one iteration, createVector and UpsertEmbedding.  Exec on a
\* cancelled context fails, at no cost to the environment.
StoreVector(r) ==
    /\ run[r].pc = "store"
    /\ run[r].j < Len(CurrentBatch(run[r]))
    /\ run[r].j < Len(run[r].contentVectors)
    /\ LET cur == run[r]
           review == CurrentBatch(cur)[cur.j + 1]
           vector == createVector(cfg, <<r, cur.vectorsMade + 1>>, review,
                                  cur.contentVectors[cur.j + 1], cur.responseVectors, cur.j)
       IN \E execOk \in BOOLEAN :
            LET up == UpsertEmbedding(review_embeddings, vector, execOk)
            IN /\ cur.ctxDone => ~execOk
               /\ execOk \/ cur.ctxDone \/ faults > 0
               /\ faults' = IF execOk \/ cur.ctxDone THEN faults ELSE faults - 1
               /\ review_embeddings' = up.table
               /\ Set(r, [cur EXCEPT
                            !.j = cur.j + 1,
                            !.vectorsMade = cur.vectorsMade + 1,
                            !.upserts = Append(@, review.ID),
                            !.storeResult = CountUpsert(@, review, up.err)])
    /\ UNCHANGED <<cfg, embedder, clean_reviews, embIn, embOut>>

\* storeVectors: contentVectors[i] with i out of range is a run-time panic
StorePanic(r) ==
    /\ run[r].pc = "store"
    /\ run[r].j < Len(CurrentBatch(run[r]))
    /\ run[r].j >= Len(run[r].contentVectors)
    /\ Set(r, [run[r] EXCEPT !.pc = "panic"])
    /\ UNCHANGED <<cfg, embedder, clean_reviews, review_embeddings, faults, embIn, embOut>>

\* storeVectors returns; processReviewsInBatches adds its result and steps on
StoreDone(r) ==
    /\ run[r].pc = "store"
    /\ run[r].j >= Len(CurrentBatch(run[r]))
    /\ Set(r, [run[r] EXCEPT
                 !.pc = "batch",
                 !.batchResult = AddResult(@, run[r].storeResult),
                 !.i = run[r].i + cfg.BatchSize])
    /\ UNCHANGED <<cfg, embedder, clean_reviews, review_embeddings, faults, embIn, embOut>>

\* variant: the iteration without the short-page test, the loop ends only on
\* an empty page
PageDone_NoShortStop(r) ==
    /\ run[r].pc = "batch"
    /\ run[r].i >= Len(run[r].reviews)
    /\ LET cur == run[r]
           result == AddResult(cur.result, cur.batchResult)
           acc == [cur EXCEPT !.result = result]
       IN IF cur.ctxDone
          THEN Set(r, Return(r, [acc EXCEPT !.offset = @ + cur.batchSize],
                             result, "cancelled"))
          ELSE Set(r, [acc EXCEPT !.pc = "fetch", !.offset = @ + cur.batchSize])
    /\ UNCHANGED <<cfg, embedder, clean_reviews, review_embeddings, faults, embIn, embOut>>

\* variant: the iteration without the cancellation test
PageDone_NoCancelCheck(r) ==
    /\ run[r].pc = "batch"
    /\ run[r].i >= Len(run[r].reviews)
    /\ LET cur == run[r]
           result == AddResult(cur.result, cur.batchResult)
           acc == [cur EXCEPT !.result = result]
       IN IF Len(cur.reviews) < cur.batchSize
          THEN Set(r, Return(r, acc, result, "nil"))
          ELSE Set(r, [acc EXCEPT !.pc = "fetch", !.offset = @ + cur.batchSize])
    /\ UNCHANGED <<cfg, embedder, clean_reviews, review_embeddings, faults, embIn, embOut>>

\* processReviewsInBatches returns; the rest of the iteration of
\* processAllReviews: accumulate, short-page test, advance, cancellation test
PageDone(r) ==
    /\ run[r].pc = "batch"
    /\ run[r].i >= Len(run[r].reviews)
    /\ LET cur == run[r]
           result == AddResult(cur.result, cur.batchResult)
           acc == [cur EXCEPT !.result = result]
       IN IF Len(cur.reviews) < cur.batchSize
          THEN Set(r, Return(r, acc, result, "nil"))
          ELSE IF cur.ctxDone
               THEN Set(r, Return(r, [acc EXCEPT !.offset = @ + cur.batchSize],
                                  result, "cancelled"))
               ELSE Set(r, [acc EXCEPT !.pc = "fetch", !.offset = @ + cur.batchSize])
    /\ UNCHANGED <<cfg, embedder, clean_reviews, review_embeddings, faults, embIn, embOut>>

\* the run's context is cancelled (SIGINT/SIGTERM, consumer shutdown)
Cancel(r) ==
    /\ run[r].pc \in {"fetch", "batch", "store"}
    /\ ~run[r].ctxDone
    /\ faults > 0
    /\ faults' = faults - 1
    /\ Set(r, [run[r] EXCEPT
                 !.ctxDone = TRUE,
                 !.cancelledAt = [pc |-> run[r].pc, page |-> Len(run[r].fetches)]])
    /\ UNCHANGED <<cfg, embedder, clean_reviews, review_embeddings, embIn, embOut>>

Next ==
    \E r \in Runs :
        \/ RunOnce(r)
        \/ Fetch(r)
        \/ FetchError(r)
        \/ ProcessBatch(r)
        \/ StoreVector(r)
        \/ StorePanic(r)
        \/ StoreDone(r)
        \/ PageDone(r)
        \/ Cancel(r)

Spec == Init /\ [][Next]_vars

SpecConcurrent == InitConcurrent /\ [][Next]_vars

\* the configurations of the termination runs: vectorizer.batch_size may be
\* 0, the value Load leaves when no configuration file is read
ConfigsAnyBatchSize ==
    [APIKey : {"", "sk"},
     BatchSize : 0..MaxBatchSize,
     MaxVectorLength : {DefaultDim},
     MaxRetries : {0},
     Model : {"text-embedding-3-small"}]

InitAnyBatchSize ==
    /\ cfg \in ConfigsAnyBatchSize
    /\ embedder = NewVectorizeService(cfg)
    /\ \E kinds \in ReviewTables(ConcReviews) :
          clean_reviews = [id \in 1..Len(kinds) |-> CleanReview(id, kinds[id])]
    /\ review_embeddings = {}
    /\ faults = MaxFaults
    /\ embIn = <<>>
    /\ embOut = [err |-> "none", vectors |-> <<>>, calls |-> <<>>]
    /\ \E request \in Requests :
          run = [r \in Runs |-> IF r = 1 THEN InitialRun("idle", request)
                                         ELSE InitialRun("off", NoRequest)]

\* processReviewsInBatches is at a sub-batch: an iteration of its loop is
\* possible, and every iteration changes the state
BatchReady(r) == run[r].pc = "batch" /\ run[r].i < Len(run[r].reviews)

\* RunOnce runs on its goroutine without waiting for anything but the calls
\* it makes, and every fetch, provider call and upsert returns: a step of the
\* run that stays possible is eventually taken.  A fetch may fail and must
\* fail on a cancelled context; a cancellation need not come.  For
\* ProcessBatch weak fairness is written out, with BatchReady for the
\* enabledness of the step.
Fairness(r) ==
    /\ WF_vars(RunOnce(r))
    /\ WF_vars(Fetch(r))
    /\ WF_vars(FetchError(r))
    /\ WF_vars(StoreVector(r))
    /\ WF_vars(StorePanic(r))
    /\ WF_vars(StoreDone(r))
    /\ WF_vars(PageDone(r))
    /\ ([]<>~BatchReady(r) \/ []<><<ProcessBatch(r)>>_vars)

SpecTermination ==
    InitAnyBatchSize /\ [][Next]_vars /\ \A r \in Runs : Fairness(r)

\* ------------------------------------------------------- provider harness
\* the texts EmbedBatch is called with
Texts == {TGood, TShort, TReply, TSpaced, TBlank, TEmpty, TWide}

\* lists that take more than one chunk request: one text more than a chunk
\* holds, all of them valid or all but one, alike or with one that differs
LongLists ==
    LET valid == [k \in 1..(ChunkSize + 1) |-> TGood]
    IN {valid} \cup {[valid EXCEPT ![p] = TShort] : p \in {1, ChunkSize + 1}}
               \cup {[valid EXCEPT ![p] = TReply] : p \in {1, ChunkSize, ChunkSize + 1}}

InputLists == UNION {[1..n -> Texts] : n \in 0..MaxInputs} \cup LongLists

InitEmbed ==
    /\ cfg \in Configs
    /\ embedder = NewVectorizeService(cfg)
    /\ clean_reviews = <<>>
    /\ review_embeddings = {}
    /\ run = [r \in Runs |-> InitialRun("off", NoRequest)]
    /\ faults = MaxFaults
    /\ embIn \in InputLists
    /\ embOut = [err |-> "none", vectors |-> <<>>, calls |-> <<>>]

\* one call of Embedder.EmbedBatch on embIn
CallEmbedBatch ==
    /\ embOut.err = "none"
    /\ \E fails \in [1..NumChunks(Len(embIn)) -> 0..(cfg.MaxRetries + 1)] :
          embOut' = EmbedBatch(embedder, cfg, embIn, fails)
    /\ UNCHANGED <<cfg, embedder, clean_reviews, review_embeddings, run, faults, embIn>>

NextEmbed == CallEmbedBatch

SpecEmbed == InitEmbed /\ [][NextEmbed]_vars

\* -------------------------------------------------------- trigger harness
\* the payloads of a trigger message: decoded JSON objects, strings, typed
\* events (events.VectorizeRequest, with the parameters the message carries)
\* and values of other types
JValues(type) ==
    IF type = "bool" THEN {Absent, JBool(TRUE), JString("true")}
    ELSE IF type = "float64" THEN {Absent, JFloat(3), JFloat(4), JString("2")}
    ELSE IF type = "string" THEN {Absent, JString("app")}
    ELSE {Absent, JList(<<JString("us"), JFloat(2)>>)}

MapPayloads ==
    {[kind |-> "map[string]any", force_recompute |-> force, limit |-> limit,
      batch_size |-> batchSize, app_id |-> appID, countries |-> countries,
      languages |-> Absent, date_from |-> Absent, date_to |-> Absent] :
        force \in JValues("bool"), limit \in JValues("float64"),
        batchSize \in {Absent, JFloat(2), JFloat(0 - 2)},
        appID \in JValues("string"), countries \in JValues("[]any")}
    \cup
    {[kind |-> "map[string]any", force_recompute |-> Absent, limit |-> Absent,
      batch_size |-> Absent, app_id |-> Absent, countries |-> Absent,
      languages |-> JList(<<JString("en")>>), date_from |-> JString("2024-01-01"),
      date_to |-> JString("2024-12-31")]}

StringPayloads == {[kind |-> "string", v |-> s] : s \in {"force", "recompute", "Force", ""}}

EventPayloads ==
    {[kind |-> "events.VectorizeRequest", request |-> request] :
        request \in Requests \cup {[NoRequest EXCEPT !.AppID = "app"]}}

OtherPayloads == {[kind |-> k] : k \in {"nil", "[]uint8", "int"}}

Payloads == MapPayloads \cup StringPayloads \cup EventPayloads \cup OtherPayloads

\* a trigger message was delivered, to the processor of the consumer
\* ("received") or to the service ("handle")
InitHandle ==
    /\ cfg \in Configs
    /\ embedder = NewVectorizeService(cfg)
    /\ \E m \in 0..1 :
          clean_reviews = [id \in 1..m |-> CleanReview(id, PlainTable(m)[id])]
    /\ review_embeddings = {}
    /\ faults = MaxFaults
    /\ embIn = <<>>
    /\ embOut = [err |-> "none", vectors |-> <<>>, calls |-> <<>>]
    /\ \E payload \in Payloads, pc \in {"received", "handle"} :
          run = [r \in Runs |->
                   IF r = 1 THEN [InitialRun(pc, NoRequest) EXCEPT
                                    !.payload = payload,
                                    !.entry = IF pc = "received" THEN "consumer"
                                              ELSE "Handle"]
                   ELSE InitialRun("off", NoRequest)]

\* VectorizeServiceProcessor.Handle: only a typed event reaches the service
ProcessorHandle(r) ==
    /\ run[r].pc = "received"
    /\ Set(r, [run[r] EXCEPT
                 !.pc = IF run[r].payload.kind = "events.VectorizeRequest"
                        THEN "handle" ELSE "rejected"])
    /\ UNCHANGED <<cfg, embedder, clean_reviews, review_embeddings, faults, embIn, embOut>>

\* VectorizeService.Handle up to the call of RunOnce
Handle(r) ==
    /\ run[r].pc = "handle"
    /\ Set(r, [run[r] EXCEPT !.pc = "idle",
                             !.req = extractRequestFromPayload(run[r].payload)])
    /\ UNCHANGED <<cfg, embedder, clean_reviews, review_embeddings, faults, embIn, embOut>>

\* variant: a publish that failed is tried again
HandleReturn_Republish(r) ==
    /\ run[r].pc = "returned"
    /\ run[r].entry # "RunOnce"
    /\ LET cur == run[r]
       IN IF cur.ret.err # "nil"
          THEN /\ Set(r, [cur EXCEPT !.pc = "handled",
                                      !.handleRet = "vectorization failed"])
               /\ UNCHANGED faults
          ELSE IF cur.payload.kind # "events.VectorizeRequest"
          THEN /\ Set(r, [cur EXCEPT !.pc = "panic"])
               /\ UNCHANGED faults
          ELSE \E ok \in BOOLEAN :
                 /\ ok \/ cur.ctxDone \/ faults > 0
                 /\ faults' = IF ok \/ cur.ctxDone THEN faults ELSE faults - 1
                 /\ Set(r, [cur EXCEPT
                              !.pc = "handled",
                              !.publishes = IF ok THEN Append(@, "sent")
                                            ELSE @ \o <<"failed", "sent">>,
                              !.handleRet = "nil"])
    /\ UNCHANGED <<cfg, embedder, clean_reviews, review_embeddings, embIn, embOut>>

\* VectorizeService.Handle after RunOnce returned: the error of the run is
\* returned, or publishCompletedEvent is called once and its error only
\* logged.  The type assertion of publishCompletedEvent panics on a payload
\* that is no typed event.  publishes holds the outcome of each PublishEvent
\* call.
HandleReturn(r) ==
    /\ run[r].pc = "returned"
    /\ run[r].entry # "RunOnce"
    /\ LET cur == run[r]
       IN IF cur.ret.err # "nil"
          THEN /\ Set(r, [cur EXCEPT !.pc = "handled",
                                      !.handleRet = "vectorization failed"])
               /\ UNCHANGED faults
          ELSE IF cur.payload.kind # "events.VectorizeRequest"
          THEN /\ Set(r, [cur EXCEPT !.pc = "panic"])
               /\ UNCHANGED faults
          ELSE \E ok \in BOOLEAN :
                 /\ ok \/ cur.ctxDone \/ faults > 0
                 /\ faults' = IF ok \/ cur.ctxDone THEN faults ELSE faults - 1
                 /\ Set(r, [cur EXCEPT
                              !.pc = "handled",
                              !.publishes = Append(@, IF ok THEN "sent" ELSE "failed"),
                              !.handleRet = "nil"])
    /\ UNCHANGED <<cfg, embedder, clean_reviews, review_embeddings, embIn, embOut>>

NextHandle ==
    \E r \in Runs :
        \/ ProcessorHandle(r)
        \/ Handle(r)
        \/ RunOnce(r)
        \/ Fetch(r)
        \/ FetchError(r)
        \/ ProcessBatch(r)
        \/ StoreVector(r)
        \/ StoreDone(r)
        \/ PageDone(r)
        \/ Cancel(r)
        \/ HandleReturn(r)

SpecHandle == InitHandle /\ [][NextHandle]_vars

\* ---------------------------------------------------------------- properties
Returned(r) == run[r].pc = "returned"

RowsOf(id) == {row \in review_embeddings : row.review_id = id}

\* the rows run r inserted
RowsBy(r) == {row \in review_embeddings : row.embedding_id[1] = r}

\* the ids run r has counted as stored so far
IdsReported(r) ==
    Range(run[r].result.ReviewIDs) \cup Range(run[r].batchResult.ReviewIDs)
        \cup Range(run[r].storeResult.ReviewIDs)

CeilDiv(a, b) == (a + b - 1) \div b

\* a step of run r that is one UpsertEmbedding call, and the review it is for
UpsertCall(r) ==
    /\ run[r].pc = "store"
    /\ run'[r].pc = "store"
    /\ run'[r].j = run[r].j + 1

UpsertReview(r) == CurrentBatch(run[r])[run[r].j + 1]

\* run r returned without error and the environment injected no failure
CleanRun(r) ==
    /\ Returned(r)
    /\ run[r].ret.err = "nil"
    /\ faults = MaxFaults
    /\ run[r].ret.result.Failed = 0

\* C1: whatever the interleaving of the upserts of concurrent or successive
\* runs, force-recompute or not, review_embeddings holds at most one row per
\* source record id.
C1_OneVectorPerRecord ==
    \A a, b \in review_embeddings : a.review_id = b.review_id => a = b

\* two runs have both upserted the same record with success
C1_Witness ==
    \E row \in review_embeddings : \E r1, r2 \in Runs :
        /\ r1 # r2
        /\ row.review_id \in IdsReported(r1)
        /\ row.review_id \in IdsReported(r2)

\* C2: first write wins.  No step changes or removes a stored row; an upsert
\* whose Exec succeeds leaves the table as it is and reports success when the
\* record id already has a row, and inserts exactly one row for the id when
\* it has none; nothing else inserts.
C2_FirstWriteWins ==
    [][\A r \in Runs :
         /\ \A row \in review_embeddings : row \in review_embeddings'
         /\ UpsertCall(r) =>
              LET id == UpsertReview(r).ID
                  execOk == faults' = faults /\ ~run[r].ctxDone
              IN /\ (HasRow(review_embeddings, id) /\ execOk) =>
                      /\ review_embeddings' = review_embeddings
                      /\ run'[r].storeResult.Processed = run[r].storeResult.Processed + 1
                 /\ (~HasRow(review_embeddings, id) /\ execOk) =>
                      \E row \in review_embeddings' :
                          /\ row.review_id = id
                          /\ row \notin review_embeddings
                          /\ review_embeddings' = review_embeddings \cup {row}
                 /\ review_embeddings' # review_embeddings => ~HasRow(review_embeddings, id)
      ]_vars

\* a run has counted as stored a record whose row another run inserted
C2_Witness ==
    \E r \in Runs : \E id \in IdsReported(r) :
        \E row \in RowsOf(id) : row.embedding_id[1] # r

\* C3: with force_recompute = false a fetch returns only records that have no
\* stored vector at the time of the fetch, so a run never fetches or counts a
\* record whose vector was stored before the run started.
C3_SecondRunSkipsStored ==
    /\ [][\A r \in Runs :
            (/\ run[r].pc = "fetch"
             /\ Len(run'[r].fetches) = Len(run[r].fetches) + 1
             /\ ~run[r].req.ForceRecompute) =>
                \A id \in Range(run'[r].fetches[Len(run'[r].fetches)].ids) :
                    ~HasRow(review_embeddings, id)
        ]_vars
    /\ [](\A r \in Runs :
            ~run[r].req.ForceRecompute =>
                /\ IdsReported(r) \cap run[r].rowsAtStart = {}
                /\ \A k \in 1..Len(run[r].fetches) :
                      Range(run[r].fetches[k].ids) \cap run[r].rowsAtStart = {})

\* the same request with force_recompute = false has run twice in sequence,
\* the first run stored rows and the second one fetched
C3_Witness ==
    \E r1, r2 \in Runs :
        /\ r1 # r2
        /\ Returned(r1)
        /\ Returned(r2)
        /\ run[r1].req = run[r2].req
        /\ ~run[r2].req.ForceRecompute
        /\ run[r2].rowsAtStart # {}
        /\ run[r2].rowsAtStart = Range(run[r1].ret.result.ReviewIDs)
        /\ Len(run[r2].fetches) > 0
        /\ run[r2].ret.result.Processed = 0

\* C4: a run with force_recompute = false and no explicit limit in which
\* nothing fails and nothing is cancelled leaves every record that was
\* eligible at its start with exactly one stored vector.
C4_Exhaustion ==
    \A r \in Runs :
        (CleanRun(r) /\ ~run[r].req.ForceRecompute /\ run[r].req.Limit = 0) =>
            \A id \in run[r].eligibleAtStart : Cardinality(RowsOf(id)) = 1

\* C5: with an explicit limit L > 0 the run issues exactly one page fetch, of
\* size L, and handles at most L records: processed + failed <= L and at most
\* L rows inserted.
C5_ExplicitLimitOnePage ==
    \A r \in Runs :
        (Returned(r) /\ run[r].req.Limit > 0) =>
            /\ Len(run[r].fetches) = 1
            /\ run[r].fetches[1].limit = run[r].req.Limit
            /\ run[r].inner.result.Processed + run[r].inner.result.Failed
                  <= run[r].req.Limit
            /\ Cardinality(RowsBy(r)) <= run[r].req.Limit

\* Scenario A holds of run r: request {force_recompute: false, limit: 2}, 3
\* eligible records, no stored vector, the fallback provider of dimension 8,
\* nothing fails
ScenarioA(r) ==
    /\ Returned(r)
    /\ run[r].req = [NoRequest EXCEPT !.ForceRecompute = FALSE, !.Limit = 2]
    /\ Cardinality(run[r].eligibleAtStart) = 3
    /\ run[r].rowsAtStart = {}
    /\ embedder = "stub"
    /\ cfg.MaxVectorLength = 8
    /\ faults = MaxFaults

\* C6: Scenario A returns processed = 2 and leaves exactly 2 rows in storage,
\* each with a content vector of length 8.
C6_ScenarioA ==
    \A r \in Runs :
        ScenarioA(r) =>
            /\ run[r].ret.err = "nil"
            /\ run[r].ret.result.Processed = 2
            /\ Cardinality(review_embeddings) = 2
            /\ \A row \in review_embeddings : row.content_vec.dim = 8

\* a run of Scenario A has returned with two rows stored
C6_Witness ==
    \E r \in Runs : ScenarioA(r) /\ Cardinality(RowsBy(r)) = 2

\* run r returned without error and without cancellation; its page size is
\* at least 1
PlainRun(r) ==
    /\ Returned(r)
    /\ run[r].ret.err = "nil"
    /\ ~run[r].ctxDone
    /\ run[r].batchSize >= 1

\* C7 as stated: a run that is not cancelled and meets no fetch error issues
\* exactly ceil(C/P) page fetches, also when C is 0 or a multiple of P.
C7_FetchCountCeil ==
    \A r \in Runs :
        PlainRun(r) =>
            Len(run[r].fetches) =
                CeilDiv(Cardinality(run[r].eligibleAtStart), run[r].batchSize)

\* C7 amended: such a run issues at least one and at most floor(C/P) + 1 page
\* fetches; every fetch but the last returns a full page and the last one an
\* empty or short page, so exactly one empty-or-short page is read; with
\* force_recompute = true the count is exactly floor(C/P) + 1.
C7_FetchCountAmended ==
    \A r \in Runs :
        PlainRun(r) =>
            LET n == Len(run[r].fetches)
                C == Cardinality(run[r].eligibleAtStart)
                P == run[r].batchSize
            IN /\ n >= 1
               /\ n <= (C \div P) + 1
               /\ \A k \in 1..(n - 1) : Len(run[r].fetches[k].ids) = P
               /\ Len(run[r].fetches[n].ids) < P
               /\ run[r].req.ForceRecompute => n = (C \div P) + 1

\* a force-recompute run over a non-zero multiple of the page size has
\* returned after C/P full pages and one empty page
C7_Witness ==
    \E r \in Runs :
        /\ PlainRun(r)
        /\ run[r].req.ForceRecompute
        /\ Cardinality(run[r].eligibleAtStart) = 2 * run[r].batchSize
        /\ Len(run[r].fetches) = 3
        /\ run[r].fetches[3].ids = <<>>

\* C8: when the run is cancelled after k >= 1 full pages, RunOnce returns the
\* cancellation as its error together with the result accumulated from the k
\* pages.
C8_CancelReturnsPartial ==
    \A r \in Runs :
        (Returned(r) /\ run[r].inner.err = "cancelled") =>
            /\ run[r].ret.err = "cancelled"
            /\ run[r].ret.result = run[r].result

\* C9: when the fetch of page k fails the run returns at once with an error
\* and the result accumulated from pages 1..k-1, and the rows stored by those
\* pages stay stored.
C9_FetchErrorReturnsPartial ==
    \A r \in Runs :
        (Returned(r) /\ run[r].inner.err = "fetch") =>
            /\ run[r].ret.err = "fetch"
            /\ run[r].ret.result = run[r].result
            /\ \A id \in Range(run[r].result.ReviewIDs) : HasRow(review_embeddings, id)

\* C10: for both providers EmbedBatch on K texts fails or returns exactly K
\* vectors, the i-th one computed for the i-th input text.
C10_EmbedBatchSameLengthAndOrder ==
    embOut.err = "nil" =>
        /\ Len(embOut.vectors) = Len(embIn)
        /\ \A k \in 1..Len(embIn) :
              embOut.vectors[k].src =
                  IF embedder = "openai" THEN preprocessText(embIn[k]) ELSE embIn[k]

\* the response text prepareTexts hands on for a review, and the text a
\* provider's vector for it is computed from
ResponseTextOf(review) == prepareTexts(<<review>>).responseTexts[1]

EmbeddedText(text) == IF embedder = "openai" THEN preprocessText(text) ELSE text

\* C11: for every record of a sub-batch whose response embeddings were
\* computed, the stored response vector is present exactly when the record's
\* response text is non-empty, and it is the vector computed from that
\* record's own response text.
C11_ResponseVectorAligned ==
    \A r \in Runs :
        (run[r].pc = "store" /\ Len(run[r].responseVectors) > 0) =>
            \A k \in 1..run[r].j :
                LET review == CurrentBatch(run[r])[k]
                IN \A row \in RowsBy(r) :
                      row.review_id = review.ID =>
                        /\ (row.response_vec.dim > 0) <=> (ResponseTextOf(review) # <<>>)
                        /\ row.response_vec.dim > 0 =>
                              row.response_vec.src = EmbeddedText(ResponseTextOf(review))

\* a step of run r that is one iteration of processReviewsInBatches up to the
\* return of generateEmbeddings
ProcessBatchStep(r) ==
    /\ run[r].pc = "batch"
    /\ run[r].i < Len(run[r].reviews)
    /\ (run'[r].pc = "store" \/ run'[r].i # run[r].i)

\* that step marked the whole sub-batch failed: failed grows by the size of
\* the sub-batch, nothing else is counted or stored, the loop steps on
MarkedFailed(r) ==
    /\ run'[r].pc = "batch"
    /\ run'[r].i = run[r].i + cfg.BatchSize
    /\ run'[r].batchResult =
          [run[r].batchResult EXCEPT !.Failed = @ + Len(CurrentBatch(run[r]))]
    /\ review_embeddings' = review_embeddings

\* an EmbedBatch call one of whose chunk requests failed on every attempt
Exhausted(call) == \E k \in 1..Len(call.calls) : call.calls[k].failing > cfg.MaxRetries

\* the retry bound: a chunk request that fails on every attempt is attempted
\* exactly MaxRetries + 1 times, the EmbedBatch call then reports the error
\* and issues no further chunk request
RetryBound(call) ==
    \A k \in 1..Len(call.calls) :
        call.calls[k].failing > cfg.MaxRetries =>
            /\ call.calls[k].attempts = cfg.MaxRetries + 1
            /\ ~call.calls[k].ok
            /\ k = Len(call.calls)
            /\ call.err = "failed to generate embeddings"

\* C12 as stated: a remote provider call that fails on every attempt is
\* attempted exactly max_retries + 1 times, after which the error is surfaced
\* and the whole sub-batch is marked failed; no further attempt or chunk
\* request follows.
C12_RetryBoundFailsBatch ==
    [][\A r \in Runs :
         ProcessBatchStep(r) =>
            LET e == run'[r].embedded
            IN /\ RetryBound(e.content)
               /\ RetryBound(e.response)
               /\ (Exhausted(e.content) \/ Exhausted(e.response)) => MarkedFailed(r)
      ]_vars

\* C12 amended: such a call is attempted exactly max_retries + 1 times and
\* its error is surfaced with no further attempt or chunk request.  When it
\* was the call for the content texts, the whole sub-batch is marked failed
\* and no request for the response texts follows; when it was the call for
\* the response texts, the sub-batch is not marked failed and goes on to
\* storage without response vectors.
C12_RetryBoundAmended ==
    [][\A r \in Runs :
         ProcessBatchStep(r) =>
            LET e == run'[r].embedded
            IN /\ RetryBound(e.content)
               /\ RetryBound(e.response)
               /\ Exhausted(e.content) => (MarkedFailed(r) /\ e.response = NotCalled)
               /\ Exhausted(e.response) =>
                     /\ run'[r].pc = "store"
                     /\ run'[r].responseVectors = <<>>
                     /\ run'[r].batchResult = run[r].batchResult
      ]_vars

\* a sub-batch with a response text was marked failed after the content
\* request had failed max_retries + 1 times
C12_Witness ==
    \E r \in Runs :
        /\ run[r].pc = "batch"
        /\ Exhausted(run[r].embedded.content)
        /\ run[r].batches # <<>>
        /\ \E k \in 1..Len(run[r].batches[Len(run[r].batches)]) :
              ResponseTextOf(run[r].batches[Len(run[r].batches)][k]) # <<>>
        /\ run[r].batchResult.Failed = Len(run[r].batches[Len(run[r].batches)])
        /\ run[r].batchResult.Failed > 1

\* the vectors of the responses to a list of chunk requests, in request order
RECURSIVE ResponsesOf(_)
ResponsesOf(calls) ==
    IF calls = <<>> THEN <<>>
    ELSE ApiResponse(Head(calls).texts) \o ResponsesOf(Tail(calls))

\* C13: when the j-th attempt of a remote provider call is the first to
\* succeed (1 <= j <= max_retries + 1), exactly j attempts are made and the
\* call succeeds; when that is so for every chunk request of an EmbedBatch
\* call, the call returns the vectors of those responses and no error.
C13_FirstSuccessEndsRetries ==
    /\ \A k \in 1..Len(embOut.calls) :
          LET call == embOut.calls[k]
          IN call.failing <= cfg.MaxRetries =>
                /\ call.ok
                /\ call.attempts = call.failing + 1
    /\ (/\ embOut.calls # <<>>
        /\ \A k \in 1..Len(embOut.calls) : embOut.calls[k].failing <= cfg.MaxRetries) =>
            /\ embOut.err = "nil"
            /\ embOut.vectors = ResponsesOf(embOut.calls)

\* Scenario C: with max_retries >= 2, a request that failed max_retries times
\* and succeeded on the last attempt, in a call that went on to its second
\* chunk and returned vectors
C13_Witness ==
    /\ cfg.MaxRetries >= 2
    /\ embOut.err = "nil"
    /\ Len(embOut.calls) = 2
    /\ embOut.calls[1].failing = cfg.MaxRetries
    /\ embOut.calls[1].attempts = cfg.MaxRetries + 1
    /\ Len(embOut.vectors) = ChunkSize + 1

\* the content call of the last sub-batch failed: retries exhausted or no
\* valid input
ContentFailed(embedded) == embedded.content.err \notin {"nil", "none"}

\* C14: a content-embedding failure of a sub-batch (retries exhausted or zero
\* valid inputs) increments failed by the full size of the sub-batch, causes
\* no upsert for any of its records, adds none of its ids to the result, and
\* processing continues with the next sub-batch of the page.
C14_ContentFailureFailsBatch ==
    [][\A r \in Runs :
         (ProcessBatchStep(r) /\ ContentFailed(run'[r].embedded)) =>
             /\ MarkedFailed(r)
             /\ run'[r].batchResult.Processed = run[r].batchResult.Processed
             /\ run'[r].batchResult.ReviewIDs = run[r].batchResult.ReviewIDs
             /\ run'[r].vectorsMade = run[r].vectorsMade
             /\ run'[r].result = run[r].result
             /\ run'[r].batches = Append(run[r].batches, CurrentBatch(run[r]))
      ]_vars

\* on the first page of a run the first sub-batch failed on its content call
\* and a record of the next sub-batch has been stored
C14_Witness ==
    \E r \in Runs :
        /\ run[r].pc = "store"
        /\ run[r].offset = 0
        /\ Len(run[r].batches) = 2
        /\ run[r].batchResult = FailBatch(EmptyResult, run[r].batches[1])
        /\ run[r].vectorsMade = run[r].j
        /\ run[r].storeResult.Processed >= 1
        /\ HasRow(review_embeddings, run[r].batches[2][1].ID)
        /\ ~HasRow(review_embeddings, run[r].batches[1][1].ID)

\* the response call of the sub-batch was made and failed
ResponseFailed(embedded) == embedded.response.err \notin {"nil", "none"}

\* a step of run r that is the return of storeVectors
StoreDoneStep(r) == run[r].pc = "store" /\ run'[r].pc = "batch"

RECURSIVE FetchedCount(_)
FetchedCount(fetches) ==
    IF fetches = <<>> THEN 0 ELSE Len(Head(fetches).ids) + FetchedCount(Tail(fetches))

\* C16: a failed upsert of one record increments failed by exactly one, adds
\* nothing to processed or to the id list and stores nothing, and the loop
\* goes on to the next record; storeVectors returns only after every record
\* of the sub-batch was attempted, and a run that returns has counted every
\* record of every page it fetched as processed or as failed.
C16_UpsertFailureCountsOne ==
    /\ [][\A r \in Runs :
            /\ (UpsertCall(r) /\ faults' # faults) =>
                  /\ run'[r].storeResult =
                        [run[r].storeResult EXCEPT !.Failed = @ + 1]
                  /\ review_embeddings' = review_embeddings
                  /\ run'[r].batchResult = run[r].batchResult
                  /\ run'[r].result = run[r].result
            /\ StoreDoneStep(r) =>
                  /\ run[r].j = Len(CurrentBatch(run[r]))
                  /\ run[r].storeResult.Processed + run[r].storeResult.Failed = run[r].j
         ]_vars
    /\ [](\A r \in Runs :
            Returned(r) =>
                run[r].inner.result.Processed + run[r].inner.result.Failed
                    = FetchedCount(run[r].fetches))

\* the upsert of the first record of a sub-batch failed and the second record
\* of the sub-batch was stored; the run went on to a later page and returned
C16_Witness ==
    \E r \in Runs :
        /\ Returned(r)
        /\ run[r].inner.result.Failed = 1
        /\ run[r].inner.result.Processed >= 2
        /\ faults = MaxFaults - 1
        /\ Len(run[r].fetches) >= 2
        /\ Len(run[r].fetches[1].ids) = 2
        /\ ~HasRow(review_embeddings, run[r].fetches[1].ids[1])
        /\ HasRow(review_embeddings, run[r].fetches[1].ids[2])
        /\ Len(run[r].fetches[2].ids) >= 1
        /\ HasRow(review_embeddings, run[r].fetches[2].ids[1])
        /\ cfg.BatchSize = 2

\* the texts of the HTTP requests an EmbedBatch call issued
SentTexts == UNION {Range(embOut.calls[k].texts) : k \in 1..Len(embOut.calls)}

\* trimming and collapsing whitespace
Normalized(text) == Join(Fields(text))

\* C17: no text that is empty, whitespace-only, or shorter than 3 characters
\* after trimming and collapsing whitespace is ever included in a request
\* sent by the remote provider; every text that is sent is in normalized form.
C17_NoDegenerateTextSent ==
    \A text \in SentTexts :
        /\ Normalized(text) = text
        /\ Len(text) >= MinTextLen
        /\ \E k \in 1..Len(embIn) : Normalized(embIn[k]) = text

C19_FallbackShape ==
    (embedder = "stub" /\ embOut.err # "none") =>
        /\ embOut.err = "nil"
        /\ embOut.calls = <<>>
        /\ Len(embOut.vectors) = Len(embIn)
        /\ \A k \in 1..Len(embIn) :
              /\ embOut.vectors[k].dim = cfg.MaxVectorLength
              /\ embOut.vectors[k].src = embIn[k]

\* the fallback provider has returned vectors for a list of inputs none of
\* which the remote provider would accept
C19_Witness ==
    /\ embedder = "stub"
    /\ embOut.err = "nil"
    /\ Len(embIn) = MaxInputs
    /\ Len(embOut.vectors) = MaxInputs
    /\ \A k \in 1..Len(embIn) : preprocessText(embIn[k]) = <<>>
    /\ TEmpty \in Range(embIn)
    /\ TShort \in Range(embIn)

\* the concatenation of a list of sub-batches
RECURSIVE Flatten(_)
Flatten(batches) ==
    IF batches = <<>> THEN <<>> ELSE Head(batches) \o Flatten(Tail(batches))

\* run r has split its current page in full
SplitDone(r) == run[r].pc = "batch" /\ run[r].i >= Len(run[r].reviews)

\* C20: splitting a page of N records by sub-batch size B >= 1 produces
\* exactly ceil(N/B) non-empty contiguous sub-batches whose sizes sum to N
\* and whose concatenation is the page in its original order.
C20_SplitExact ==
    \A r \in Runs :
        SplitDone(r) =>
            LET N == Len(run[r].reviews)
                B == cfg.BatchSize
                batches == run[r].batches
            IN /\ Len(batches) = CeilDiv(N, B)
               /\ \A k \in 1..Len(batches) : Len(batches[k]) >= 1
               /\ FetchedCount([k \in 1..Len(batches) |-> [ids |-> batches[k]]]) = N
               /\ Flatten(batches) = run[r].reviews

\* a page longer than the sub-batch size has been split in full
C20_Witness ==
    \E r \in Runs :
        /\ SplitDone(r)
        /\ Len(run[r].reviews) > cfg.BatchSize
        /\ Len(run[r].batches) >= 2
        /\ run[r].batches[1] # run[r].batches[2]

\* a is b with some of its entries left out
RECURSIVE IsSubseq(_, _)
IsSubseq(a, b) ==
    IF a = <<>> THEN TRUE
    ELSE IF b = <<>> THEN FALSE
    ELSE IF Head(a) = Head(b) THEN IsSubseq(Tail(a), Tail(b))
    ELSE IsSubseq(a, Tail(b))

\* the ids of the records run r fetched, in fetch order
FetchedIds(r) == Flatten([k \in 1..Len(run[r].fetches) |-> run[r].fetches[k].ids])

\* the id list of run r as accumulated so far: the result of
\* processAllReviews, then that of the page, then that of the sub-batch
ReportedIds(r) ==
    LET cur == run[r]
    IN IF cur.pc = "returned" THEN cur.inner.result.ReviewIDs
       ELSE IF cur.pc = "batch" THEN cur.result.ReviewIDs \o cur.batchResult.ReviewIDs
       ELSE IF cur.pc \in {"store", "panic"}
            THEN cur.result.ReviewIDs \o cur.batchResult.ReviewIDs
                     \o cur.storeResult.ReviewIDs
       ELSE cur.result.ReviewIDs

\* C21: within a run the ids of the upsert calls, in call order, and the id
\* list of the result are subsequences of the ids in fetch order: failures
\* leave gaps and never reorder.
C21_OrderKept ==
    \A r \in Runs :
        /\ IsSubseq(run[r].upserts, FetchedIds(r))
        /\ IsSubseq(ReportedIds(r), run[r].upserts)
        /\ IsSubseq(ReportedIds(r), FetchedIds(r))

\* a returned run that fetched three records and lists the first and the
\* third: the failure of the second left a gap
C21_Witness ==
    \E r \in Runs :
        /\ Returned(r)
        /\ Len(FetchedIds(r)) = 3
        /\ Len(run[r].upserts) >= 2
        /\ ReportedIds(r) = <<FetchedIds(r)[1], FetchedIds(r)[3]>>

\* the sub-batch run r handed to processBatch last
LastBatch(r) == run[r].batches[Len(run[r].batches)]

\* run r, with an API key configured, is past a sub-batch whose request for
\* the content texts failed on every attempt
ProviderDown(r) ==
    /\ cfg.APIKey # ""
    /\ run[r].pc = "batch"
    /\ run[r].batches # <<>>
    /\ Exhausted(run[r].embedded.content)

Extracted(r) ==
    /\ run[r].payload # NoPayload
    /\ run[r].pc \notin {"off", "received", "rejected", "handle"}

\* the payload is of a shape the type switch has no case for
UnknownShape(payload) == payload.kind \notin {"map[string]any", "string"}

\* C23: a trigger payload of an unrecognized shape, neither a field map nor
\* a string, yields the all-defaults request (no force-recompute, no limit,
\* no filters), so the run uses the configured batch size as its page size.
C23_UnknownPayloadDefaults ==
    \A r \in Runs :
        (Extracted(r) /\ UnknownShape(run[r].payload)) =>
            /\ run[r].req = NoRequest
            /\ run[r].pc # "idle" =>
                  /\ run[r].batchSize = cfg.BatchSize
                  /\ \A k \in 1..Len(run[r].fetches) :
                        /\ run[r].fetches[k].limit = cfg.BatchSize
                        /\ run[r].fetches[k].filters = Filters(NoRequest)

\* a payload that is no map, no string and no typed event was handled and
\* the first page was fetched with the configured batch size
C23_Witness ==
    \E r \in Runs :
        /\ Extracted(r)
        /\ run[r].payload.kind \in {"nil", "[]uint8", "int"}
        /\ Len(run[r].fetches) = 1
        /\ run[r].fetches[1].limit = cfg.BatchSize

\* the context of run r was cancelled while a page was being processed
CancelledInPage(r) == run[r].cancelledAt.pc \in {"batch", "store"}

\* the page run r fetched last was a full one
LastPageFull(r) ==
    /\ run[r].fetches # <<>>
    /\ Len(run[r].fetches[Len(run[r].fetches)].ids) = run[r].batchSize

\* C24: cancellation is observed only between pages.  Once the context is
\* cancelled while a full page is being processed, the run goes on through
\* every remaining sub-batch and record of that page and counts each of them,
\* it returns only when the page is done, and no fetch of a following page is
\* issued afterwards.
C24_CancelBetweenPages ==
    \A r \in Runs :
        CancelledInPage(r) =>
            /\ Len(run[r].fetches) = run[r].cancelledAt.page
            /\ run[r].pc \in {"batch", "store", "panic", "returned"}
            /\ Returned(r) =>
                  /\ Flatten(run[r].batches) = run[r].reviews
                  /\ run[r].inner.result.Processed + run[r].inner.result.Failed
                        = FetchedCount(run[r].fetches)
                  /\ LastPageFull(r) => run[r].inner.err = "cancelled"

\* a run cancelled during a full page of two sub-batches returned the
\* cancellation, with a record counted as failed after the cancellation
C24_Witness ==
    \E r \in Runs :
        /\ CancelledInPage(r)
        /\ Returned(r)
        /\ LastPageFull(r)
        /\ Len(run[r].batches) >= 2
        /\ run[r].inner.err = "cancelled"
        /\ run[r].inner.result.Failed >= 1
        /\ run[r].inner.result.Processed >= 1

\* the page size of run r: the explicit limit of the request when it is
\* positive, the configured batch size otherwise
PageSize(r) == IF run[r].req.Limit > 0 THEN run[r].req.Limit ELSE cfg.BatchSize

\* C25: the k-th fetch of a run is issued with limit P and offset (k-1)*P,
\* where P is the page size determined at the start of the run; P and the
\* filters are the same for every fetch of the run.
C25_FetchLimitOffset ==
    \A r \in Runs :
        run[r].pc \notin {"off", "idle"} =>
            /\ run[r].batchSize = PageSize(r)
            /\ \A k \in 1..Len(run[r].fetches) :
                  /\ run[r].fetches[k].limit = PageSize(r)
                  /\ run[r].fetches[k].offset = (k - 1) * PageSize(r)
                  /\ run[r].fetches[k].filters = Filters(run[r].req)

\* a run whose request carries an explicit limit other than the configured
\* batch size issued its second fetch
C25_Witness ==
    \E r \in Runs :
        /\ run[r].req.Limit > 0
        /\ run[r].req.Limit # cfg.BatchSize
        /\ Len(run[r].fetches) >= 2
        /\ run[r].fetches[2].offset = run[r].req.Limit
        /\ run[r].fetches[2].ids # <<>>

\* run r has ended: RunOnce returned, or the run-time panic of storeVectors
\* unwound it
Ended(r) == run[r].pc \in {"returned", "panic"}

\* C26: every run terminates.  For any finite set of eligible records, any
\* request and any configured batch size, 0 included, a run that was started
\* eventually ends.
C26_Terminates == \A r \in Runs : (run[r].pc = "idle") ~> Ended(r)

\* C27: in storeVectors the list of content vectors has one entry per record
\* of the sub-batch, so contentVectors[i] is never out of range, and the
\* content vector of record i is the one computed from record i's own text;
\* for either provider, also when preprocessing rejects some of the texts.
C27_ContentVectorPerRecord ==
    \A r \in Runs :
        /\ run[r].pc # "panic"
        /\ run[r].pc = "store" =>
              LET batch == CurrentBatch(run[r])
              IN /\ Len(run[r].contentVectors) = Len(batch)
                 /\ \A k \in 1..Min(Len(batch), Len(run[r].contentVectors)) :
                       run[r].contentVectors[k].src = EmbeddedText(batch[k].ContentClean)

\* C28: a record is counted as processed and listed in the result of a run
\* only if that run's upsert inserted its row; an upsert skipped because the
\* record already had a row is not reported as stored.
C28_ProcessedMeansInserted ==
    \A r \in Runs :
        /\ \A id \in IdsReported(r) : \E row \in RowsBy(r) : row.review_id = id
        /\ Len(ReportedIds(r)) = Cardinality(RowsBy(r))

\* the records a result accounts for
Counted(result) == result.Processed + result.Skipped + result.Failed

\* the result of run r as accumulated so far: that of processAllReviews, to
\* which the result of the page and that of the sub-batch are still to be added
Accumulated(r) ==
    LET cur == run[r]
    IN IF cur.pc = "returned" THEN cur.inner.result
       ELSE IF cur.pc = "batch" THEN AddResult(cur.result, cur.batchResult)
       ELSE IF cur.pc \in {"store", "panic"}
            THEN AddResult(AddResult(cur.result, cur.batchResult), cur.storeResult)
       ELSE cur.result

\* run r is between two sub-batches, between two pages, or has returned
Checkpoint(r) ==
    \/ run[r].pc = "batch" /\ run[r].i > 0
    \/ run[r].pc = "fetch"
    \/ run[r].pc = "returned"

\* the records of run r handled so far: those of the pages done and, of the
\* page in progress, those of the sub-batches done and of the upserts done
Handled(r) ==
    LET cur == run[r]
    IN IF cur.pc = "batch"
       THEN FetchedCount(cur.fetches) - Len(cur.reviews) + Min(cur.i, Len(cur.reviews))
       ELSE IF cur.pc \in {"store", "panic"}
            THEN FetchedCount(cur.fetches) - Len(cur.reviews) + cur.i + cur.j
       ELSE FetchedCount(cur.fetches)

\* C29 as stated: after every sub-batch and page, and in the result of
\* processAllReviews, processed + skipped + failed equals the number of
\* records fetched so far in the run, and the id list has exactly `processed`
\* entries.
C29_CountedEqualsFetched ==
    \A r \in Runs :
        Checkpoint(r) =>
            /\ Counted(Accumulated(r)) = FetchedCount(run[r].fetches)
            /\ Len(Accumulated(r).ReviewIDs) = Accumulated(r).Processed

\* C29 amended: processed + skipped + failed equals the number of records
\* handled so far: after every page and in the result of processAllReviews
\* that is the number of records fetched so far; after a sub-batch it is the
\* records of the pages done plus those of the sub-batches of the page done so
\* far.  The id list has exactly `processed` entries, no id twice, and skipped
\* stays 0: every record handled is counted once, as processed or as failed.
C29_CountedEqualsHandled ==
    \A r \in Runs :
        /\ Counted(Accumulated(r)) = Handled(r)
        /\ run[r].pc \in {"fetch", "returned"} =>
              Counted(Accumulated(r)) = FetchedCount(run[r].fetches)
        /\ Len(Accumulated(r).ReviewIDs) = Accumulated(r).Processed
        /\ Cardinality(Range(Accumulated(r).ReviewIDs)) = Len(Accumulated(r).ReviewIDs)
        /\ Accumulated(r).Skipped = 0
        /\ Handled(r) <= FetchedCount(run[r].fetches)

\* a run between the two sub-batches of a page: one record counted, as
\* failed, of two fetched
C29_Witness ==
    \E r \in Runs :
        /\ run[r].pc = "batch"
        /\ run[r].i > 0
        /\ run[r].i < Len(run[r].reviews)
        /\ Accumulated(r).Failed = 1
        /\ Counted(Accumulated(r)) = 1
        /\ FetchedCount(run[r].fetches) = 2

\* C30: the run parameters carried by a trigger message the processor of the
\* consumer accepts, a typed VectorizeRequest event, are the parameters used
\* by the run: the request built by Handle has the force_recompute, limit and
\* filters of the message.
C30_MessageParametersUsed ==
    \A r \in Runs :
        (Extracted(r) /\ run[r].entry = "consumer") =>
            /\ run[r].payload.kind = "events.VectorizeRequest"
            /\ run[r].req = run[r].payload.request
            /\ \A k \in 1..Len(run[r].fetches) :
                  run[r].fetches[k].filters = Filters(run[r].payload.request)

\* ---------------------------------------------------------------------------
\* C31: for every trigger message Handle runs the pipeline once and calls
\* PublishEvent at most once, only after RunOnce returned without error; when
\* RunOnce returned an error nothing is published and Handle returns the
\* error; when the publish fails Handle still returns nil.
C31_PublishOnceAfterSuccess ==
    \A r \in Runs :
        run[r].entry # "RunOnce" =>
            /\ run[r].rounds <= 1
            /\ (run[r].pc \in {"returned", "handled", "panic"} => run[r].rounds = 1)
            /\ Len(run[r].publishes) <= 1
            /\ (run[r].publishes # <<>> =>
                    run[r].pc = "handled" /\ run[r].ret.err = "nil")
            /\ (run[r].pc = "handled" /\ run[r].ret.err # "nil" =>
                    run[r].publishes = <<>> /\ run[r].handleRet = "vectorization failed")
            /\ (run[r].pc = "handled" /\ run[r].ret.err = "nil" =>
                    Len(run[r].publishes) = 1 /\ run[r].handleRet = "nil")
            /\ (run[r].handleRet # "none" => run[r].pc = "handled")

C31_Witness ==
    \E r \in Runs :
        /\ run[r].entry = "consumer"
        /\ run[r].pc = "handled"
        /\ run[r].ret.result.Processed = 1
        /\ run[r].publishes = <<"failed">>
        /\ run[r].handleRet = "nil"

\* ---------------------------------------------------------------------------
\* C32: in every query issued, the placeholders $1..$n of the statement
\* correspond one-to-one, in position, to the n arguments passed: the k-th
\* placeholder is $k, the k-th argument is the one it was written for, every
\* argument is referred to, and limit and offset are the last two.
C32_PlaceholdersMatchArguments ==
    \A r \in Runs : \A f \in 1..Len(run[r].fetches) :
        LET q == BuildQuery(run[r].fetches[f].filters)
            n == Len(q.args)
        IN /\ Len(q.refs) = n
           /\ AllReferenced(q)
           /\ \A k \in 1..Len(q.refs) :
                 /\ q.refs[k].n = k
                 /\ q.refs[k].n <= n
                 /\ q.args[q.refs[k].n].of = q.refs[k].of
           /\ n >= 2 /\ q.args[n - 1].of = "limit" /\ q.args[n].of = "offset"

\* the EmbedBatch calls of the last sub-batch of run r and the vectors it
\* holds are those of one provider: the fallback provider sends no request,
\* never fails and makes vectors of the configured length; the remote provider
\* succeeds only through a request and makes vectors of its own length
MadeBy(provider, r) ==
    LET e == run[r].embedded
        vectors == Range(run[r].contentVectors) \cup Range(run[r].responseVectors)
    IN IF provider = "stub"
       THEN /\ e.content.err \in {"none", "nil"} /\ e.content.calls = <<>>
            /\ e.response.err \in {"none", "nil"} /\ e.response.calls = <<>>
            /\ \A v \in vectors : v = NilVec \/ v.dim = cfg.MaxVectorLength
       ELSE /\ e.content.err = "nil" => e.content.calls # <<>>
            /\ e.response.err = "nil" => e.response.calls # <<>>
            /\ \A v \in vectors : v = NilVec \/ v.dim = OpenAIDim

\* C33: the provider is chosen at construction and never changes: it is the
\* fallback provider exactly when no API key is configured (or the remote
\* client cannot be constructed), otherwise the remote one, and every
\* sub-batch of every run is embedded by it.
C33_ProviderChosenOnce ==
    /\ [](/\ embedder \in {"stub", "openai"}
          /\ (embedder = "stub") <=> (cfg.APIKey = "" \/ NewOpenAIClientFails(cfg))
          /\ \A r \in Runs : run[r].pc # "off" => MadeBy(embedder, r))
    /\ [][embedder' = embedder /\ cfg' = cfg]_vars

\* a run with the remote provider that is past its second sub-batch
C33_Witness ==
    \E r \in Runs :
        /\ embedder = "openai"
        /\ cfg.APIKey # ""
        /\ Len(run[r].batches) >= 2
        /\ run[r].embedded.content.calls # <<>>
        /\ run[r].contentVectors # <<>>

\* the texts of the chunk requests of a call, one after the other
SentInOrder(calls) == Flatten([k \in 1..Len(calls) |-> calls[k].texts])

\* C34: a remote embedding call over more than 10 texts is sent as contiguous,
\* order-preserving chunks of at most 10 texts and is all-or-nothing: it
\* returns the vectors of all chunks in input order, or it fails at the first
\* chunk whose retries are exhausted, sends no further chunk and returns no
\* vector.
C34_ChunkedAllOrNothing ==
    LET texts == ProcessedInputs(embIn)
        calls == embOut.calls
        sent == SentInOrder(calls)
    IN (embedder = "openai" /\ embOut.err # "none" /\ Len(texts) > ChunkSize) =>
          /\ \A k \in 1..Len(calls) :
                /\ Len(calls[k].texts) >= 1
                /\ Len(calls[k].texts) <= ChunkSize
                /\ k < Len(calls) => Len(calls[k].texts) = ChunkSize /\ calls[k].ok
          /\ Len(sent) <= Len(texts)
          /\ sent = SubSeq(texts, 1, Len(sent))
          /\ IF embOut.err = "nil"
             THEN /\ sent = texts
                  /\ \A k \in 1..Len(calls) : calls[k].ok
                  /\ embOut.vectors = ApiResponse(texts)
             ELSE /\ Len(calls) >= 1
                  /\ ~calls[Len(calls)].ok
                  /\ calls[Len(calls)].failing > cfg.MaxRetries
                  /\ calls[Len(calls)].attempts = cfg.MaxRetries + 1
                  /\ embOut.vectors = <<>>

\* the second chunk of a call exhausted its retries after the first chunk had
\* been answered
C34_Witness ==
    /\ embedder = "openai"
    /\ Len(ProcessedInputs(embIn)) = ChunkSize + 1
    /\ embIn[1] = TReply
    /\ embOut.err = "failed to generate embeddings"
    /\ Len(embOut.calls) = 2
    /\ embOut.calls[1].ok
    /\ ~embOut.calls[2].ok
    /\ embOut.vectors = <<>>

\* C35: every StoredVector handed to the persistence sink declares a dimension
\* equal to the length of its content vector (and of its response vector when
\* it has one), and carries the configured model name and the id, collection
\* id, language, rating and country of its source record.  Stated on the rows
\* the sink accepted.
C35_DeclaredDimIsVectorLength ==
    \A row \in review_embeddings :
        /\ row.dim = row.content_vec.dim
        /\ row.response_vec # NilVec => row.dim = row.response_vec.dim
        /\ row.model = cfg.Model
        /\ \E k \in 1..Len(clean_reviews) :
              /\ clean_reviews[k].ID = row.review_id
              /\ clean_reviews[k].AppID = row.app_id
              /\ clean_reviews[k].Language = row.language
              /\ clean_reviews[k].Rating = row.rating
              /\ clean_reviews[k].Country = row.country

====
